---- MODULE Spec2Model ----
\* Model of the match cache-and-query layer of groupietracker
\* (src/groupietracker/main.go, package controller).
\*
\* Strings are sequences of one-character strings over a small alphabet, so
\* that the string functions of the code (ToLower, TrimSpace, Split, Fields,
\* Contains, EqualFold, the byte-wise order of ">") are computed, not assumed.
\* Display-only fields that no modelled operation reads (PrettyDate,
\* MatchviewURL, Thumbnail, the title of a video) are left out of a Match.
EXTENDS Integers, Sequences, FiniteSets, TLC

\* ------------------------------------------------------------------ bounds

\* Number of request goroutines (net/http runs one per incoming request).
NumProcs == 2
\* The clock runs over 0..MaxTime, in minutes.
MaxTime == 2
\* Longest record sequence handed to a function of the query pipeline.
MaxRecs == 2

\* ------------------------------------------------------- program constants

\* cacheTTL = 2 * time.Minute
cacheTTL == 2

Procs == 1..NumProcs
NoOne == 0

\* The zero time.Time of the package-level cachedAt: far enough in the past
\* that time.Since(cachedAt) >= cacheTTL at every instant of the clock.
ZeroTime == 0 - cacheTTL

\* ------------------------------------------------------------------ strings

\* Byte value of a character (the order Go's string comparison uses).
Ord(c) ==
  CASE c = " " -> 32
    [] c = "+" -> 43
    [] c = "0" -> 48
    [] c = "1" -> 49
    [] c = "2" -> 50
    [] c = "3" -> 51
    [] c = ":" -> 58
    [] c = ";" -> 59
    [] c = "A" -> 65
    [] c = "B" -> 66
    [] c = "a" -> 97
    [] c = "b" -> 98
    [] c = "|" -> 124

\* unicode.ToLower on one character.
LowerChar(c) ==
  CASE c = "A" -> "a"
    [] c = "B" -> "b"
    [] OTHER -> c

\* strings.ToLower
ToLower(s) == [i \in 1..Len(s) |-> LowerChar(s[i])]

\* unicode.IsSpace, on the alphabet of the model.
IsSpace(c) == c = " "

RECURSIVE TrimLeft(_)
TrimLeft(s) ==
  IF s # <<>> /\ IsSpace(Head(s)) THEN TrimLeft(Tail(s)) ELSE s

RECURSIVE TrimRight(_)
TrimRight(s) ==
  IF s # <<>> /\ IsSpace(s[Len(s)]) THEN TrimRight(SubSeq(s, 1, Len(s) - 1)) ELSE s

\* strings.TrimSpace
TrimSpace(s) == TrimRight(TrimLeft(s))

\* Go's s > t on strings: byte-wise lexicographic order.
RECURSIVE StrGreater(_, _)
StrGreater(s, t) ==
  IF s = <<>> THEN FALSE
  ELSE IF t = <<>> THEN TRUE
  ELSE IF Ord(Head(s)) # Ord(Head(t)) THEN Ord(Head(s)) > Ord(Head(t))
  ELSE StrGreater(Tail(s), Tail(t))

\* strings.Contains
Contains(s, sub) ==
  \E i \in 0..(Len(s) - Len(sub)) : SubSeq(s, i + 1, i + Len(sub)) = sub

\* Position of the first occurrence of character c in s, 0 when absent.
RECURSIVE IndexFrom(_, _, _)
IndexFrom(s, c, i) ==
  IF i > Len(s) THEN 0
  ELSE IF s[i] = c THEN i
  ELSE IndexFrom(s, c, i + 1)

IndexChar(s, c) == IndexFrom(s, c, 1)

\* strings.Split(s, sep) for a one-character separator: always at least one
\* piece, empty pieces kept.
RECURSIVE Split(_, _)
Split(s, sep) ==
  LET i == IndexChar(s, sep)
  IN IF i = 0 THEN <<s>>
     ELSE <<SubSeq(s, 1, i - 1)>> \o Split(SubSeq(s, i + 1, Len(s)), sep)

\* strings.SplitN(s, sep, 2): cut at the first separator only.
SplitN2(s, sep) ==
  LET i == IndexChar(s, sep)
  IN IF i = 0 THEN <<s>>
     ELSE <<SubSeq(s, 1, i - 1), SubSeq(s, i + 1, Len(s))>>

\* strings.Fields: the maximal runs of non-space characters.
RECURSIVE Fields(_)
Fields(s) ==
  LET t == TrimLeft(s)
      i == IndexFrom(t, " ", 1)
  IN IF t = <<>> THEN <<>>
     ELSE IF i = 0 THEN <<t>>
     ELSE <<SubSeq(t, 1, i - 1)>> \o Fields(SubSeq(t, i + 1, Len(t)))

\* strings.Join
RECURSIVE Join(_, _)
Join(parts, sep) ==
  IF parts = <<>> THEN <<>>
  ELSE IF Len(parts) = 1 THEN parts[1]
  ELSE parts[1] \o sep \o Join(Tail(parts), sep)

\* strings.EqualFold: equality under simple case folding.
EqualFold(s, t) == ToLower(s) = ToLower(t)

\* ------------------------------------------------------------ Match records

\* A Match as json.Decode leaves it: the `json:"-"` fields hold zero values.
RawMatch(title, competition, date, videos) ==
  [Title |-> title, Competition |-> competition, DateRaw |-> date,
   Videos |-> videos, EmbedHTML |-> <<>>, IsFavorite |-> FALSE,
   Category |-> <<>>]

\* sort.Slice on a slice of at most 12 elements is an insertion sort
\* (sort.insertionSortLessFunc): element i is swapped towards the front while
\* less(data[j], data[j-1]) holds.
RECURSIVE SinkLeft(_, _)
SinkLeft(ms, j) ==
  IF j > 1 /\ StrGreater(ms[j].DateRaw, ms[j - 1].DateRaw)
  THEN SinkLeft([ms EXCEPT ![j] = ms[j - 1], ![j - 1] = ms[j]], j - 1)
  ELSE ms

RECURSIVE InsertionSort(_, _)
InsertionSort(ms, i) ==
  IF i > Len(ms) THEN ms ELSE InsertionSort(SinkLeft(ms, i), i + 1)

SortByDateDesc(ms) == InsertionSort(ms, 2)

\* The category normalizeMatches derives from m.Competition.
DeriveCategory(competition) ==
  TrimSpace(ToLower(SplitN2(competition, ":")[1]))

\* Mutant: the records are left in the provider's order.
NormalizeNoSort(ms) ==
  [i \in 1..Len(ms) |->
     [ms[i] EXCEPT !.Category = DeriveCategory(ms[i].Competition)]]

\* normalizeMatches: derive Category of every record, then sort by DateRaw,
\* descending.
normalizeMatches(ms) ==
  SortByDateDesc([i \in 1..Len(ms) |->
                    [ms[i] EXCEPT !.Category = DeriveCategory(ms[i].Competition)]])

\* url.QueryUnescape on the alphabet of the model, which holds no "%": every
\* "+" becomes a space and no escape error arises.
QueryUnescape(s) == [i \in 1..Len(s) |-> IF s[i] = "+" THEN " " ELSE s[i]]

\* ------------------------------------------------------- favorites (cookie)

\* Set of the elements of a sequence.
Range(seq) == {seq[i] : i \in 1..Len(seq)}

\* getFavorites: the non-empty trimmed pieces of the cookie value, split at
\* "|"; the empty set when the request carries no cookie.
getFavorites(hasCookie, value) ==
  IF ~hasCookie THEN {}
  ELSE {TrimSpace(t) : t \in Range(Split(value, "|"))} \ {<<>>}

\* ------------------------------------------------------------ title lookup

\* The comparison DetailHandler falls back to: case-insensitive, runs of
\* spaces collapsed.
FoldedEqual(a, b) ==
  EqualFold(Join(Fields(a), <<" ">>), Join(Fields(b), <<" ">>))

\* The loop of DetailHandler: index of the first record whose title equals
\* the requested one or equals it after folding; 0 when the loop finds none.
RECURSIVE FindFrom(_, _, _)
FindFrom(ms, title, i) ==
  IF i > Len(ms) THEN 0
  ELSE IF ms[i].Title = title THEN i
  ELSE IF FoldedEqual(ms[i].Title, title) THEN i
  ELSE FindFrom(ms, title, i + 1)

FindMatch(ms, title) == FindFrom(ms, title, 1)

\* Markup DetailHandler shows for a record without videos.
NoVideoHTML == <<"0">>

\* The embed DetailHandler selects for the found record.
SelectEmbed(m) == IF Len(m.Videos) > 0 THEN m.Videos[1] ELSE NoVideoHTML

\* ------------------------------------------------- the match cache: state

VARIABLES
  now,          \* the wall clock, in minutes
  cacheMu,      \* sync.Mutex: the goroutine that holds it, NoOne when free
  cachedAt,     \* time of the last completed refresh
  cachedMatch,  \* records of the last refresh (the cache's backing array)
  pc,           \* where each request goroutine stands
  local,        \* the handler's slice `matches`
  shared,       \* whether `matches` shares the backing array of cachedMatch
  ret,          \* what fetchMatches returned to the goroutine
  ups,          \* whether the goroutine's call of fetchMatches went upstream
  failure,      \* history: the error the goroutine's upstream call ended with
  rendered,     \* the answer a handler handed to rendering in the step just taken
  herd,         \* history: the calls of all goroutines ran together on a stale cache
  lastFailed,   \* history: the last fetch failed and no call took the lock since
  call          \* a call of a function of the query pipeline: arguments and result

cacheVars == <<now, cacheMu, cachedAt, cachedMatch, pc, local, shared, ret, ups,
               failure, rendered, herd, lastFailed>>

\* Upstream responses: the decoded `response` arrays the provider may send.
RespTwo ==
  << RawMatch(<<"A">>, <<"a", ":", "b">>, <<"1">>, << <<"a">> >>),
     RawMatch(<<"B">>, <<"B">>, <<"2">>, <<>>) >>

Responses == {<<>>, RespTwo}

\* Errors of httpClient.Get and of the JSON decoder.
FetchErrors == {"unreachable", "malformed"}

\* Requests: the home page with a favorites cookie, and the detail page of a
\* title, without one.
HomeReq(hasCookie, cookie) ==
  [kind |-> "home", hasCookie |-> hasCookie, cookie |-> cookie, title |-> <<>>]

DetailReq(title) ==
  [kind |-> "detail", hasCookie |-> FALSE, cookie |-> <<>>, title |-> title]

Requests == {HomeReq(TRUE, <<"A", "|", " ", "B">>), DetailReq(<<"b">>)}

NoReq == DetailReq(<<>>)
NoRet == [err |-> "pending", at |-> ZeroTime, torn |-> FALSE]
NoResp == [req |-> NoReq, failure |-> "none", status |-> 0, body |-> <<>>]

\* HomeHandler shows at most this many records.
homeLimit == 6

\* http status codes the handlers answer with.
StatusOK == 200
StatusNotFound == 404
StatusInternalServerError == 500

\* -------------------------------------------------- the match cache: steps

\* Mutant: the TTL test passes one minute too long.
FreshOffByOne == (now - cachedAt <= cacheTTL) /\ Len(cachedMatch) > 0

\* time.Since(cachedAt) < cacheTTL && len(cachedMatch) > 0
Fresh == (now - cachedAt < cacheTTL) /\ Len(cachedMatch) > 0

\* Mutant: a lock that excludes nobody.
CanLockAlways(mu) == TRUE

\* cacheMu.Lock() returns only when no goroutine holds the mutex.
CanLock(mu) == mu = NoOne

\* Mutant: a return path that leaves the mutex with goroutine p.
UnlockMissing(p) == p

\* The deferred cacheMu.Unlock(): the mutex after fetchMatches of goroutine p
\* returns.
Unlock(p) == NoOne

\* Mutant: the slice handed out is the cache's own.
CloneShared(src) == [data |-> src, shared |-> TRUE]

\* cloneMatches: a new backing array holding a copy of src.
cloneMatches(src) == [data |-> src, shared |-> FALSE]

\* Mutant: expired records are served in place of the error.
ServeStaleOnError(e) ==
  [ret |-> [err |-> IF cachedMatch # <<>> THEN "none" ELSE e, at |-> cachedAt,
            torn |-> FALSE],
   data |-> cachedMatch, cachedMatch |-> cachedMatch, cachedAt |-> cachedAt]

\* Mutant: a failed fetch stamps the cache as if it had been refreshed.
PoisonOnError(e) ==
  [ret |-> [err |-> e, at |-> ZeroTime, torn |-> FALSE], data |-> <<>>,
   cachedMatch |-> cachedMatch, cachedAt |-> now]

\* The error path of fetchMatches (`return nil, err`): what the caller
\* receives, and the cache the call leaves behind.
ReturnError(e) ==
  [ret |-> [err |-> e, at |-> ZeroTime, torn |-> FALSE], data |-> <<>>,
   cachedMatch |-> cachedMatch, cachedAt |-> cachedAt]

InFlight(q) == pc[q] \in {"lock", "fetching", "stored"}
Refreshing(q) == pc[q] \in {"fetching", "stored"}

\* A request arrives: its handler calls loadMatchesWithFavorites, which calls
\* fetchMatches, which waits for the mutex. (fetchMatches reads nothing of the
\* request, whose parameters are drawn where the handler first uses them.)
Call(p) ==
  /\ UNCHANGED call
  /\ pc[p] = "idle"
  /\ pc' = [pc EXCEPT ![p] = "lock"]
  /\ herd' = ((\A q \in Procs \ {p} : InFlight(q)) /\ ~Fresh)
  /\ rendered' = NoResp
  /\ UNCHANGED <<now, cacheMu, cachedAt, cachedMatch, local, shared, ret, ups,
                 failure, lastFailed>>

\* fetchMatches takes the mutex and tests the cache: a fresh cache is cloned
\* and returned at once, otherwise the upstream call is issued.
Acquire(p) ==
  /\ UNCHANGED call
  /\ pc[p] = "lock"
  /\ CanLock(cacheMu)
  /\ lastFailed' = FALSE
  /\ IF Fresh
     THEN LET c == cloneMatches(cachedMatch)
          IN /\ local' = [local EXCEPT ![p] = c.data]
             /\ shared' = [shared EXCEPT ![p] = c.shared]
             /\ ret' = [ret EXCEPT ![p] =
                          [err |-> "none", at |-> cachedAt,
                           torn |-> \E q \in Procs : pc[q] = "stored"]]
             /\ cacheMu' = Unlock(p)
             /\ pc' = [pc EXCEPT ![p] = "got"]
             /\ UNCHANGED ups
     ELSE /\ cacheMu' = p
          /\ ups' = [ups EXCEPT ![p] = TRUE]
          /\ pc' = [pc EXCEPT ![p] = "fetching"]
          /\ UNCHANGED <<local, shared, ret>>
  /\ rendered' = NoResp
  /\ UNCHANGED <<now, cachedAt, cachedMatch, herd, failure>>

\* httpClient.Get or the decoder fails: fetchMatches returns the error.
FetchErr(p, e) ==
  /\ UNCHANGED call
  /\ pc[p] = "fetching"
  /\ failure' = [failure EXCEPT ![p] = e]
  /\ LET r == ReturnError(e)
     IN /\ ret' = [ret EXCEPT ![p] = r.ret]
        /\ local' = [local EXCEPT ![p] = r.data]
        /\ cachedMatch' = r.cachedMatch
        /\ cachedAt' = r.cachedAt
  /\ cacheMu' = Unlock(p)
  /\ lastFailed' = TRUE
  /\ pc' = [pc EXCEPT ![p] = "got"]
  /\ rendered' = NoResp
  /\ UNCHANGED <<now, shared, ups, herd>>

\* The upstream answers and the answer decodes: the records are normalized
\* and become the cache's records (cachedMatch = apiResp.Response, a new
\* backing array: a slice that shared the old one keeps the old one).
FetchOK(p, r) ==
  /\ UNCHANGED call
  /\ pc[p] = "fetching"
  /\ cachedMatch' = normalizeMatches(r)
  /\ local' = [q \in Procs |-> IF shared[q] THEN cachedMatch ELSE local[q]]
  /\ shared' = [q \in Procs |-> FALSE]
  /\ pc' = [pc EXCEPT ![p] = "stored"]
  /\ rendered' = NoResp
  /\ UNCHANGED <<now, cacheMu, cachedAt, ret, ups, failure, herd, lastFailed>>

\* cachedAt = time.Now(); return cloneMatches(cachedMatch), nil
Stamp(p) ==
  /\ UNCHANGED call
  /\ pc[p] = "stored"
  /\ cachedAt' = now
  /\ LET c == cloneMatches(cachedMatch)
     IN /\ local' = [local EXCEPT ![p] = c.data]
        /\ shared' = [shared EXCEPT ![p] = c.shared]
  /\ ret' = [ret EXCEPT ![p] =
               [err |-> "none", at |-> now,
                torn |-> \E q \in Procs \ {p} : pc[q] = "stored"]]
  /\ cacheMu' = Unlock(p)
  /\ pc' = [pc EXCEPT ![p] = "got"]
  /\ rendered' = NoResp
  /\ UNCHANGED <<now, cachedMatch, ups, failure, herd, lastFailed>>

\* The records the handler's slice shows: those of the cache's array while
\* the slice shares it.
View(p) == IF shared[p] THEN cachedMatch ELSE local[p]

\* loadMatchesWithFavorites: matches[i].IsFavorite = favs[matches[i].Title]
Annotate(ms, favs) ==
  [i \in 1..Len(ms) |-> [ms[i] EXCEPT !.IsFavorite = (ms[i].Title \in favs)]]

\* The slice after the handler of request r has run on ms, and its answer.
\* HomeHandler renders the first homeLimit records; DetailHandler looks the
\* title up, writes EmbedHTML into the found element and renders it.
RunHandler(r, ms) ==
  LET annotated == Annotate(ms, getFavorites(r.hasCookie, r.cookie))
      title == TrimSpace(QueryUnescape(r.title))
      i == FindMatch(annotated, title)
      found == [annotated[i] EXCEPT !.EmbedHTML = SelectEmbed(annotated[i])]
  IN IF r.kind = "home"
     THEN [slice |-> annotated,
           resp |-> [status |-> StatusOK,
                     body |-> IF Len(annotated) > homeLimit
                              THEN SubSeq(annotated, 1, homeLimit)
                              ELSE annotated]]
     ELSE IF i = 0
     THEN [slice |-> annotated, resp |-> [status |-> StatusNotFound, body |-> <<>>]]
     ELSE [slice |-> [annotated EXCEPT ![i] = found],
           resp |-> [status |-> StatusOK, body |-> <<found>>]]

\* The rest of the handler, after fetchMatches has returned: an error is
\* answered with serverError, otherwise the handler works on its slice.
Handle(p, r) ==
  /\ UNCHANGED call
  /\ pc[p] = "got"
  /\ pc' = [pc EXCEPT ![p] = "idle"]
  /\ IF ret[p].err # "none"
     THEN /\ rendered' = [req |-> r, failure |-> failure[p],
                          status |-> StatusInternalServerError, body |-> <<>>]
          /\ UNCHANGED cachedMatch
     ELSE LET h == RunHandler(r, View(p))
          IN /\ rendered' = [req |-> r, failure |-> failure[p],
                             status |-> h.resp.status, body |-> h.resp.body]
             /\ cachedMatch' = IF shared[p] THEN h.slice ELSE cachedMatch
  \* The goroutine ends: its slice and the history of its call are dropped.
  /\ local' = [local EXCEPT ![p] = <<>>]
  /\ shared' = [shared EXCEPT ![p] = FALSE]
  /\ ret' = [ret EXCEPT ![p] = NoRet]
  /\ ups' = [ups EXCEPT ![p] = FALSE]
  /\ failure' = [failure EXCEPT ![p] = "none"]
  /\ UNCHANGED <<now, cacheMu, cachedAt, herd, lastFailed>>

\* A minute passes.
Tick ==
  /\ UNCHANGED call
  /\ now < MaxTime
  /\ now' = now + 1
  /\ rendered' = NoResp
  /\ UNCHANGED <<cacheMu, cachedAt, cachedMatch, pc, local, shared, ret, ups,
                 failure, herd, lastFailed>>

CacheInit ==
  /\ now = 0
  /\ cacheMu = NoOne
  /\ cachedAt = ZeroTime
  /\ cachedMatch = <<>>
  /\ pc = [p \in Procs |-> "idle"]
  /\ local = [p \in Procs |-> <<>>]
  /\ shared = [p \in Procs |-> FALSE]
  /\ ret = [p \in Procs |-> NoRet]
  /\ ups = [p \in Procs |-> FALSE]
  /\ failure = [p \in Procs |-> "none"]
  /\ rendered = NoResp
  /\ herd = FALSE
  /\ lastFailed = FALSE

\* No call of the query pipeline is under way while the cache is exercised.
NoCall == [fn |-> "none"]

Init == CacheInit /\ call = NoCall

Next ==
  \/ \E p \in Procs : Call(p)
  \/ \E p \in Procs : Acquire(p)
  \/ \E p \in Procs, e \in FetchErrors : FetchErr(p, e)
  \/ \E p \in Procs, r \in Responses : FetchOK(p, r)
  \/ \E p \in Procs : Stamp(p)
  \/ \E p \in Procs, r \in Requests : Handle(p, r)
  \/ Tick

vars == <<cacheVars, call>>

Spec == Init /\ [][Next]_vars

\* The steps of the goroutine that holds the mutex, up to its return from
\* fetchMatches.
Proceed ==
  \E p \in Procs :
    \/ \E e \in FetchErrors : FetchErr(p, e)
    \/ \E r \in Responses : FetchOK(p, r)
    \/ Stamp(p)

\* The scheduling the code relies on: a goroutine that holds the mutex goes
\* on (the upstream call ends within the 10 s timeout of httpClient, with a
\* response or an error), and sync.Mutex hands the lock to a goroutine that
\* keeps waiting for it (starvation mode).
Fairness ==
  /\ \A p \in Procs : SF_vars(Acquire(p))
  /\ WF_vars(Proceed)

FairSpec == Spec /\ Fairness

\* ------------------------------------------------ the match cache: claims

AllGot == \A p \in Procs : pc[p] = "got"
Fetchers == {p \in Procs : ups[p]}

\* What a caller of fetchMatches holds when the call has returned: the
\* error, the records and the time of the refresh they come from.
Snapshot(p) == [err |-> ret[p].err, at |-> ret[p].at, recs |-> local[p]]

\* Canonical order and derived fields: dates never increase along the
\* sequence and every category is the one its competition gives.
IsNormalized(ms) ==
  /\ \A i \in 1..(Len(ms) - 1) : ~StrGreater(ms[i + 1].DateRaw, ms[i].DateRaw)
  /\ \A i \in 1..Len(ms) : ms[i].Category = DeriveCategory(ms[i].Competition)

\* The complete normalized result of one refresh: all records of one
\* upstream response, and only those, normalized.
IsRefreshResult(ms) ==
  /\ IsNormalized(ms)
  /\ \E r \in Responses :
       /\ Len(ms) = Len(r)
       /\ Range(ms) = {[x EXCEPT !.Category = DeriveCategory(x.Competition)] :
                         x \in Range(r)}

\* C1, as stated: when the calls of all goroutines ran together on a stale
\* or empty cache and all have returned, exactly one of them went upstream
\* and all hold the same snapshot or the same error.
C1_OneCallForAll ==
  (herd /\ AllGot) =>
    /\ Cardinality(Fetchers) = 1
    /\ \A p, q \in Procs : Snapshot(p) = Snapshot(q)

\* C1, amended: when the calls of all goroutines ran together on a stale or
\* empty cache and all have returned, at least one went upstream; and if
\* every upstream call succeeded with at least one record and the TTL of it
\* has not elapsed, exactly one call went upstream and all callers hold the
\* same snapshot.
C1_OneCallWhenItSucceeds ==
  (herd /\ AllGot) =>
    /\ Fetchers # {}
    /\ (\A q \in Fetchers : /\ ret[q].err = "none"
                            /\ local[q] # <<>>
                            /\ now - ret[q].at < cacheTTL)
         => /\ Cardinality(Fetchers) = 1
            /\ \A p, q \in Procs : Snapshot(p) = Snapshot(q)

\* C1 witness: all calls ran together on a stale cache, one went upstream
\* and another was served its result.
C1_Witness ==
  /\ herd /\ AllGot
  /\ Cardinality(Fetchers) = 1
  /\ \E p \in Procs : ~ups[p] /\ ret[p].err = "none" /\ local[p] # <<>>

\* A step in which goroutine p takes the mutex.
TakesLock(p) == pc[p] = "lock" /\ pc'[p] # "lock"

\* C2, as stated: a call that takes the lock within the TTL of the last
\* successful fetch issues no upstream call, and one that takes it after the
\* TTL has elapsed (or before any fetch succeeded) issues one.
C2_NoCallWithinTTL ==
  [][\A p \in Procs :
       TakesLock(p) => (ups'[p] <=> ~(now - cachedAt < cacheTTL))]_vars

\* C2, amended: a call that takes the lock within the TTL of the last
\* successful fetch issues no upstream call and returns the cached snapshot,
\* provided that fetch brought at least one record; every other call issues
\* one upstream call.
C2_NoCallWithinTTLIfRecords ==
  [][\A p \in Procs :
       TakesLock(p) =>
         /\ ups'[p] <=> ~(now - cachedAt < cacheTTL /\ cachedMatch # <<>>)
         /\ ups'[p] => pc'[p] = "fetching"
         /\ ~ups'[p] =>
              /\ pc'[p] = "got" /\ ret'[p].err = "none"
              /\ local'[p] = cachedMatch /\ ret'[p].at = cachedAt
              /\ cachedMatch' = cachedMatch /\ cachedAt' = cachedAt]_vars

\* C2 witness: one call was served from the cache, and after the TTL elapsed
\* another call went upstream.
C2_Witness ==
  \E p, q \in Procs :
    /\ pc[p] = "got" /\ ~ups[p] /\ ret[p].err = "none" /\ ret[p].at = cachedAt
    /\ pc[q] = "fetching" /\ cachedMatch # <<>> /\ now - cachedAt >= cacheTTL

\* C3: at most one refresh is in flight, the goroutine refreshing holds the
\* mutex, and no goroutine takes the lock (and so reads or refreshes the
\* cache) while a refresh is in flight.
C3_OneRefreshInFlight ==
  /\ [](Cardinality({p \in Procs : Refreshing(p)}) <= 1)
  /\ [](\A p \in Procs : Refreshing(p) => cacheMu = p)
  /\ [][\A p \in Procs : TakesLock(p) => ~\E q \in Procs : Refreshing(q)]_vars

\* C3 witness: a caller waits for the mutex while another one refreshes.
C3_Witness ==
  \E p, q \in Procs : pc[p] = "stored" /\ pc[q] = "lock"

\* C4: a call whose upstream fetch or decoding failed returns that error
\* and no records, and its handler answers with a server error and no
\* records, whether or not the cache holds (expired) records.
C4_ErrorNotStale ==
  /\ \A p \in Procs :
       failure[p] # "none" =>
         (pc[p] = "got" /\ ret[p].err = failure[p] /\ local[p] = <<>> /\ ~shared[p])
  /\ rendered.failure # "none" =>
       (rendered.status = StatusInternalServerError /\ rendered.body = <<>>)

\* C4 witness: the fetch failed while the cache held expired records.
C4_Witness ==
  \E p \in Procs :
    /\ pc[p] = "got" /\ failure[p] # "none"
    /\ cachedMatch # <<>> /\ now - cachedAt >= cacheTTL

C6_NoHalfWrittenSnapshot ==
  \A p \in Procs :
    (pc[p] = "got" /\ ret[p].err = "none") =>
      /\ ~ret[p].torn
      /\ IsRefreshResult(local[p])

\* C6 witness: a caller holds the previous snapshot while a refresh has
\* written the new records and not yet the timestamp.
C6_Witness ==
  \E p, q \in Procs :
    /\ pc[p] = "got" /\ ret[p].err = "none" /\ local[p] # <<>>
    /\ pc[q] = "stored" /\ cachedMatch = <<>>

\* C7: no handler's slice shares the cache's array; the cached records are
\* those a refresh wrote, with isFavorite false and no embed; and the
\* favorite flags of an answer are those of the answered request's cookie.
C7_SnapshotIsolation ==
  /\ \A p \in Procs : ~shared[p]
  /\ IsRefreshResult(cachedMatch)
  /\ \A i \in 1..Len(cachedMatch) :
       ~cachedMatch[i].IsFavorite /\ cachedMatch[i].EmbedHTML = <<>>
  /\ \A i \in 1..Len(rendered.body) :
       rendered.body[i].IsFavorite <=>
         rendered.body[i].Title
           \in getFavorites(rendered.req.hasCookie, rendered.req.cookie)

\* C7 witness: a list request with a favorites cookie was answered with a
\* record flagged as favorite, while another request holds its own copy of
\* the same cached records, unflagged.
C7_Witness ==
  /\ rendered.req.kind = "home"
  /\ \E i \in 1..Len(rendered.body) : rendered.body[i].IsFavorite
  /\ cachedMatch # <<>>
  /\ \E p \in Procs :
       /\ pc[p] = "got" /\ local[p] = cachedMatch
       /\ {m.Title : m \in Range(local[p])} = {m.Title : m \in Range(rendered.body)}

\* C8: every call of fetchMatches that waits for the mutex returns, with
\* records or an error; a goroutine that has returned does not hold the
\* mutex; and the mutex, once taken, is released.
C8_NoIndefiniteBlocking ==
  /\ \A p \in Procs : (pc[p] = "lock") ~> (pc[p] = "got")
  /\ [](\A p \in Procs : pc[p] \in {"got", "idle"} => cacheMu # p)
  /\ (cacheMu # NoOne) ~> (cacheMu = NoOne)

\* C8 witness: after a call ended in an error, another caller holds the
\* mutex.
C8_Witness ==
  \E p, q \in Procs :
    /\ pc[p] = "got" /\ failure[p] # "none"
    /\ pc[q] = "fetching" /\ cacheMu = q

\* ------------------------------------------------------ the query pipeline

\* Mutant: the text filter compares without lowering the query.
RECURSIVE FilterLoopCaseSensitive(_, _, _, _, _)
FilterLoopCaseSensitive(ms, q, c, i, filtered) ==
  IF i > Len(ms) THEN filtered
  ELSE LET m == ms[i]
       IN IF q # <<>> /\ ~Contains(m.Title, q) /\ ~Contains(m.Competition, q)
          THEN FilterLoopCaseSensitive(ms, q, c, i + 1, filtered)
          ELSE IF c # <<>> /\ m.Category # <<>> /\ ~Contains(m.Category, c)
          THEN FilterLoopCaseSensitive(ms, q, c, i + 1, filtered)
          ELSE FilterLoopCaseSensitive(ms, q, c, i + 1, Append(filtered, m))

\* The loop of filterMatches over matches[i..], q and c being the lowered
\* query and category: a record is skipped (`continue`) when the text test or
\* the category test rejects it, and appended otherwise.
RECURSIVE FilterLoop(_, _, _, _, _)
FilterLoop(ms, q, c, i, filtered) ==
  IF i > Len(ms) THEN filtered
  ELSE LET m == ms[i]
       IN IF q # <<>> /\ ~Contains(ToLower(m.Title), q)
                      /\ ~Contains(ToLower(m.Competition), q)
          THEN FilterLoop(ms, q, c, i + 1, filtered)
          ELSE IF c # <<>> /\ m.Category # <<>> /\ ~Contains(m.Category, c)
          THEN FilterLoop(ms, q, c, i + 1, filtered)
          ELSE FilterLoop(ms, q, c, i + 1, Append(filtered, m))

\* filterMatches
filterMatches(matches, query, category) ==
  IF query = <<>> /\ category = <<>> THEN matches
  ELSE FilterLoop(matches, ToLower(query), ToLower(category), 1, <<>>)

\* http status code of a request that lacks a required parameter.
StatusBadRequest == 400

\* DetailHandler from the `title` parameter to the record it renders: the
\* status it answers with and the index of the record found (0: none).
DetailLookup(matches, titleRaw) ==
  IF titleRaw = <<>> THEN [status |-> StatusBadRequest, index |-> 0]
  ELSE LET title == TrimSpace(QueryUnescape(titleRaw))
           i == FindMatch(matches, title)
       IN IF i = 0 THEN [status |-> StatusNotFound, index |-> 0]
          ELSE [status |-> StatusOK, index |-> i]

\* Records the provider may send, for the functions of the query pipeline:
\* categories "a", "b" and none, titles that differ in case and in spacing.
RecordPool ==
  { RawMatch(<<"A", " ", "b">>, <<"a", ":", "B">>, <<"1">>, <<>>),
    RawMatch(<<"a", " ", "b">>, <<" ", "B", ":">>, <<"2">>, <<>>),
    RawMatch(<<"a", " ", " ", "b">>, <<":", "a">>, <<"3">>, <<>>),
    RawMatch(<<"B">>, <<>>, <<"0">>, <<>>) }

\* All sequences over S of length at most n.
RECURSIVE SeqsUpTo(_, _)
SeqsUpTo(S, n) ==
  IF n = 0 THEN {<<>>}
  ELSE LET shorter == SeqsUpTo(S, n - 1)
       IN shorter \cup {Append(t, x) : t \in {u \in shorter : Len(u) = n - 1}, x \in S}

\* What the handlers hand to the pipeline: a normalized snapshot of the cache.
Snapshots == {normalizeMatches(raw) : raw \in SeqsUpTo(RecordPool, MaxRecs)}

\* Values of the q and category parameters of /matches.
Queries == {<<>>, <<"a">>, <<"B">>, <<"A", " ">>}
Categories == {<<>>, <<"a">>, <<"B">>}

\* Values of the title parameter of /match.
TitleParams ==
  {<<>>, <<"A", " ", "b">>, <<"a", "+", "b">>, <<"a", " ", " ", "b">>,
   <<" ", "b">>, <<"b", "a">>}

FilterCalls ==
  {[fn |-> "filterMatches", matches |-> ms, query |-> x, category |-> y,
    done |-> FALSE, out |-> <<>>] : ms \in Snapshots, x \in Queries, y \in Categories}

LookupCalls ==
  {[fn |-> "DetailLookup", matches |-> ms, title |-> t, done |-> FALSE,
    out |-> [status |-> 0, index |-> 0]] : ms \in Snapshots, t \in TitleParams}

\* CollectionHandler filters the snapshot.
DoFilter ==
  /\ call.fn = "filterMatches" /\ ~call.done
  /\ call' = [call EXCEPT !.done = TRUE,
                          !.out = filterMatches(call.matches, call.query, call.category)]
  /\ UNCHANGED cacheVars

\* DetailHandler looks the title up in the snapshot.
DoLookup ==
  /\ call.fn = "DetailLookup" /\ ~call.done
  /\ call' = [call EXCEPT !.done = TRUE,
                          !.out = DetailLookup(call.matches, call.title)]
  /\ UNCHANGED cacheVars

QueryInit == CacheInit /\ call \in (FilterCalls \cup LookupCalls)

QueryNext == DoFilter \/ DoLookup

QuerySpec == QueryInit /\ [][QueryNext]_vars

\* ---------------------------------------------- the query pipeline: claims

\* A call of filterMatches that has returned.
Filtered(call_) == call_.fn = "filterMatches" /\ call_.done

\* The text filter of the specification: no constraint when empty, else a
\* case-insensitive substring of the title or of the competition.
MatchesText(m, x) ==
  \/ x = <<>>
  \/ Contains(ToLower(m.Title), ToLower(x))
  \/ Contains(ToLower(m.Competition), ToLower(x))

\* The category filter of the specification: no constraint when empty, else
\* a case-insensitive substring of the derived category.
MatchesCategory(m, y) ==
  \/ y = <<>>
  \/ Contains(ToLower(m.Category), ToLower(y))

\* C9, as stated: filterMatches returns, in their order, exactly the records
\* that match the text filter and the category filter.
C9_FilterComposition ==
  Filtered(call) =>
    LET Both(m) == MatchesText(m, call.query) /\ MatchesCategory(m, call.category)
    IN call.out = SelectSeq(call.matches, Both)

\* C9, amended: filterMatches returns, in their order, exactly the records
\* that match the text filter and either have an empty derived category or
\* match the category filter; with both filters empty it returns its input.
C9_FilterCompositionLenient ==
  Filtered(call) =>
    LET Both(m) ==
          /\ MatchesText(m, call.query)
          /\ (m.Category = <<>> \/ MatchesCategory(m, call.category))
    IN /\ call.out = SelectSeq(call.matches, Both)
       /\ (call.query = <<>> /\ call.category = <<>>) => call.out = call.matches

\* C9 witness: a text filter and a category filter, both in upper case, were
\* applied together; one record passed both and another was rejected.
C9_Witness ==
  /\ Filtered(call)
  /\ call.query = <<"B">> /\ call.category = <<"B">>
  /\ Len(call.out) = 1 /\ Len(call.matches) = 2
  /\ call.out[1].Category = <<"b">>

\* C10, as stated: the record found is the first whose title equals the
\* looked-up title exactly, if there is one; otherwise the first whose title
\* equals it after case-folding and collapsing runs of spaces; otherwise the
\* answer is NotFound.
C10_ExactMatchFirst ==
  (call.fn = "DetailLookup" /\ call.done /\ call.title # <<>>) =>
    LET title == TrimSpace(QueryUnescape(call.title))
        ms == call.matches
        exact == {i \in 1..Len(ms) : ms[i].Title = title}
        folded == {i \in 1..Len(ms) : FoldedEqual(ms[i].Title, title)}
        Min(S) == CHOOSE i \in S : \A j \in S : i <= j
    IN IF exact # {}
       THEN call.out = [status |-> StatusOK, index |-> Min(exact)]
       ELSE IF folded # {}
       THEN call.out = [status |-> StatusOK, index |-> Min(folded)]
       ELSE call.out = [status |-> StatusNotFound, index |-> 0]

\* ------------------------------------------------------------- pagination

\* Longest sequence handed to paginate.
MaxCount == 4

\* pageSize = 9
pageSize == 9

\* Mutant: the number of pages is rounded down.
TotalPagesFloor(count, size) ==
  LET t == count \div size
  IN IF t = 0 THEN 1 ELSE t

\* totalPages = (len(matches) + size - 1) / size, and 1 when that is 0.
TotalPages(count, size) ==
  LET t == (count + size - 1) \div size
  IN IF t = 0 THEN 1 ELSE t

\* if page < 1 { page = 1 }; if page > totalPages { page = totalPages }
ClampPage(page, totalPages) ==
  LET p1 == IF page < 1 THEN 1 ELSE page
  IN IF p1 > totalPages THEN totalPages ELSE p1

\* if page > 1 { prev = page - 1 }
PrevPage(page) == IF page > 1 THEN page - 1 ELSE 0

\* Mutant: the last page names a successor.
NextPageUnbounded(page, totalPages) == page + 1

\* if page < totalPages { next = page + 1 }
NextPage(page, totalPages) == IF page < totalPages THEN page + 1 ELSE 0

\* paginate
paginate(matches, page, size) ==
  LET sz == IF size <= 0 THEN pageSize ELSE size
      totalPages == TotalPages(Len(matches), sz)
      pg == ClampPage(page, totalPages)
      start0 == (pg - 1) * sz
      end0 == start0 + sz
      start == IF start0 > Len(matches) THEN Len(matches) ELSE start0
      end == IF end0 > Len(matches) THEN Len(matches) ELSE end0
  IN [paged |-> SubSeq(matches, start + 1, end),
      totalPages |-> totalPages,
      prev |-> PrevPage(pg),
      next |-> NextPage(pg, totalPages)]

\* Value of a decimal digit of the alphabet.
DigitVal(c) ==
  CASE c = "0" -> 0
    [] c = "1" -> 1
    [] c = "2" -> 2
    [] c = "3" -> 3

IsDigit(c) == c \in {"0", "1", "2", "3"}

\* The number a string of digits denotes, acc being that of the digits read.
RECURSIVE ParseDigits(_, _)
ParseDigits(s, acc) ==
  IF s = <<>> THEN acc ELSE ParseDigits(Tail(s), 10 * acc + DigitVal(Head(s)))

\* strconv.Atoi on the alphabet of the model (which holds no "-"): an
\* optional "+", then one digit at least and digits only; anything else is an
\* error. The strings of the model are far too short to leave the range of int.
Atoi(s) ==
  LET digits == IF s # <<>> /\ Head(s) = "+" THEN Tail(s) ELSE s
  IN IF digits = <<>> \/ \E i \in 1..Len(digits) : ~IsDigit(digits[i])
     THEN [err |-> TRUE, val |-> 0]
     ELSE [err |-> FALSE, val |-> ParseDigits(digits, 0)]

\* parsePage
parsePage(raw) ==
  IF raw = <<>> THEN 1
  ELSE LET a == Atoi(raw)
       IN IF a.err \/ a.val < 1 THEN 1 ELSE a.val

\* CollectionHandler, from the records loadMatchesWithFavorites returned to
\* the listPageData handed to render.
CollectionHandler(matches, qRaw, categoryRaw, pageRaw) ==
  LET query == TrimSpace(qRaw)
      category == TrimSpace(categoryRaw)
      page == parsePage(pageRaw)
      filtered == filterMatches(matches, query, category)
      pg == paginate(filtered, page, pageSize)
  IN [Matches |-> pg.paged, Query |-> query, Category |-> category,
      CurrentPage |-> page, TotalPages |-> pg.totalPages,
      PrevPage |-> pg.prev, NextPage |-> pg.next]

\* A sequence of n records that differ in their titles.
Numbered(n) ==
  [i \in 1..n |-> RawMatch([k \in 1..i |-> "a"], <<"a", ":">>, <<"0">>, <<>>)]

\* Arguments of paginate: page numbers below, inside and above the range, and
\* sizes that are not positive (paginate then takes pageSize).
PageArgs == (0 - 1)..(MaxCount + 2)
SizeArgs == {0 - 1, 0, 1, 2, 3}

\* Values of the page parameter of /matches.
PageParams ==
  {<<>>, <<"0">>, <<"1">>, <<"2">>, <<"+", "1">>, <<"1", "0">>, <<"a">>,
   <<" ", "1">>, <<"+">>}

PaginateCalls ==
  {[fn |-> "paginate", matches |-> Numbered(n), page |-> p, size |-> s,
    done |-> FALSE] : n \in 0..MaxCount, p \in PageArgs, s \in SizeArgs}

CollectionCalls ==
  {[fn |-> "CollectionHandler", matches |-> ms, query |-> x, category |-> <<>>,
    page |-> p, done |-> FALSE] :
     ms \in Snapshots, x \in {<<>>, <<"B">>}, p \in PageParams}

\* Upstream responses handed to normalizeMatches.
NormalizeCalls ==
  {[fn |-> "normalizeMatches", matches |-> raw, done |-> FALSE] :
     raw \in Responses \cup SeqsUpTo(RecordPool, MaxRecs)}

\* A handler paginates a list of records.
DoPaginate ==
  /\ call.fn = "paginate" /\ ~call.done
  /\ call' = [fn |-> "paginate", matches |-> call.matches, page |-> call.page,
              size |-> call.size, done |-> TRUE,
              out |-> paginate(call.matches, call.page, call.size)]
  /\ UNCHANGED cacheVars

\* A request of /matches on a loaded snapshot.
DoCollection ==
  /\ call.fn = "CollectionHandler" /\ ~call.done
  /\ call' = [fn |-> "CollectionHandler", matches |-> call.matches,
              query |-> call.query, category |-> call.category,
              page |-> call.page, done |-> TRUE,
              out |-> CollectionHandler(call.matches, call.query,
                                        call.category, call.page)]
  /\ UNCHANGED cacheVars

\* fetchMatches normalizes the decoded response.
DoNormalize ==
  /\ call.fn = "normalizeMatches" /\ ~call.done
  /\ call' = [fn |-> "normalizeMatches", matches |-> call.matches, done |-> TRUE,
              out |-> normalizeMatches(call.matches)]
  /\ UNCHANGED cacheVars

PipelineInit ==
  CacheInit /\ call \in (PaginateCalls \cup CollectionCalls \cup NormalizeCalls)

PipelineNext == DoPaginate \/ DoCollection \/ DoNormalize

PipelineSpec == PipelineInit /\ [][PipelineNext]_vars

\* ------------------------------------------------------ pagination: claims

\* A call of paginate with a positive size that has returned.
Paginated(call_) == call_.fn = "paginate" /\ call_.done /\ call_.size > 0

\* ceil(count / size), for count >= 0 and size > 0.
CeilDiv(count, size) ==
  CHOOSE k \in 0..count : k * size >= count /\ (k = 0 \/ (k - 1) * size < count)

\* max(1, ceil(count / size))
PagesOf(count, size) ==
  IF CeilDiv(count, size) < 1 THEN 1 ELSE CeilDiv(count, size)

\* The requested page clamped into [1, total].
Effective(page, total) ==
  IF page < 1 THEN 1 ELSE IF page > total THEN total ELSE page

\* The pages first..total of ms, one after the other.
RECURSIVE PagesFrom(_, _, _, _)
PagesFrom(ms, first, total, size) ==
  IF first > total THEN <<>>
  ELSE paginate(ms, first, size).paged \o PagesFrom(ms, first + 1, total, size)

\* C11: paginate returns totalPages = max(1, ceil(count/size)); the page is
\* the records at positions (e-1)*size up to min(e*size, count) of the input,
\* e being the requested page clamped into [1, totalPages]; and the pages
\* 1..totalPages, one after the other, are the input.
C11_Pagination ==
  Paginated(call) =>
    LET count == Len(call.matches)
        total == PagesOf(count, call.size)
        e == Effective(call.page, total)
        last == IF e * call.size < count THEN e * call.size ELSE count
    IN /\ call.out.totalPages = total
       /\ call.out.paged = SubSeq(call.matches, (e - 1) * call.size + 1, last)
       /\ PagesFrom(call.matches, 1, total, call.size) = call.matches

\* C11 witness: a page beyond the last was asked of three records in pages
\* of two, and the last page, of one record, was returned.
C11_Witness ==
  /\ Paginated(call)
  /\ Len(call.matches) = 3 /\ call.size = 2 /\ call.page > 2
  /\ call.out.totalPages = 2 /\ call.out.paged = <<call.matches[3]>>

\* C12, as stated: the CurrentPage handed to rendering lies in
\* [1, TotalPages] and is the page whose records, PrevPage and NextPage are
\* handed over with it.
C12_CurrentPageInRange ==
  (call.fn = "CollectionHandler" /\ call.done) =>
    LET filtered == filterMatches(call.matches, call.out.Query, call.out.Category)
        shown == paginate(filtered, call.out.CurrentPage, pageSize)
    IN /\ call.out.CurrentPage \in 1..call.out.TotalPages
       /\ call.out.Matches = shown.paged
       /\ call.out.PrevPage = PrevPage(call.out.CurrentPage)
       /\ call.out.NextPage = NextPage(call.out.CurrentPage, call.out.TotalPages)

\* C13: with e the requested page clamped into [1, totalPages], prev is 0
\* exactly when e = 1 and e - 1 otherwise, next is 0 exactly when
\* e = totalPages and e + 1 otherwise; a prev or next that is not 0 is a page
\* in [1, totalPages].
C13_PageNeighbours ==
  Paginated(call) =>
    LET total == PagesOf(Len(call.matches), call.size)
        e == Effective(call.page, total)
    IN /\ call.out.prev = (IF e = 1 THEN 0 ELSE e - 1)
       /\ call.out.next = (IF e = total THEN 0 ELSE e + 1)
       /\ call.out.prev # 0 => call.out.prev \in 1..total
       /\ call.out.next # 0 => call.out.next \in 1..total

\* C13 witness: a page with a predecessor and a successor was returned.
C13_Witness ==
  /\ Paginated(call)
  /\ call.out.prev = call.page - 1 /\ call.out.prev > 0
  /\ call.out.next = call.page + 1 /\ call.out.next <= call.out.totalPages

\* C17, as stated: after normalization the category of a record is the
\* lowercased, trimmed part of its competition before the first ":", and is
\* empty when the competition holds no ":".
C17_CategoryDerivation ==
  (call.fn = "normalizeMatches" /\ call.done) =>
    \A i \in 1..Len(call.out) :
      LET competition == call.out[i].Competition
          colon == IndexChar(competition, ":")
      IN call.out[i].Category =
           (IF colon = 0 THEN <<>>
            ELSE TrimSpace(ToLower(SubSeq(competition, 1, colon - 1))))

\* --------------------------------------------------- canonical order: claim

\* The fields of a record the provider sends.
Sent(m) ==
  [Title |-> m.Title, Competition |-> m.Competition, DateRaw |-> m.DateRaw,
   Videos |-> m.Videos]

\* Number of the records of ms the provider sent as x.
Occurrences(ms, x) == Cardinality({i \in 1..Len(ms) : Sent(ms[i]) = x})

\* ms holds the records of r, each as often as r does, in some order.
IsPermutation(ms, r) ==
  /\ Len(ms) = Len(r)
  /\ \A i \in 1..Len(r) : Occurrences(ms, Sent(r[i])) = Occurrences(r, Sent(r[i]))

\* Dates never increase along ms, in the byte-wise order of strings.
DatesDescend(ms) ==
  \A i \in 1..(Len(ms) - 1) : ~StrGreater(ms[i + 1].DateRaw, ms[i].DateRaw)

\* The response of the specification's scenario: dates 03, 01, 02.
ScenarioResp ==
  << RawMatch(<<"A">>, <<"a", ":">>, <<"0", "3">>, <<>>),
     RawMatch(<<"B">>, <<"a", ":">>, <<"0", "1">>, <<>>),
     RawMatch(<<"a">>, <<"a", ":">>, <<"0", "2">>, <<>>) >>

\* C16: the records a call of fetchMatches returns, from a refresh or from
\* the cache, are a permutation of an upstream response in which dates never
\* increase; the response with dates 03, 01, 02 is ordered 03, 02, 01, and
\* its first page of two holds 03 and 02, with totalPages 2, prev 0, next 2.
C16_CanonicalOrder ==
  /\ \A p \in Procs :
       (pc[p] = "got" /\ ret[p].err = "none") =>
         /\ DatesDescend(local[p])
         /\ \E r \in Responses : IsPermutation(local[p], r)
  /\ LET snapshot == normalizeMatches(ScenarioResp)
         first == paginate(snapshot, 1, 2)
     IN /\ IsPermutation(snapshot, ScenarioResp)
        /\ [i \in 1..Len(snapshot) |-> snapshot[i].DateRaw]
             = << <<"0", "3">>, <<"0", "2">>, <<"0", "1">> >>
        /\ first = [paged |-> SubSeq(snapshot, 1, 2), totalPages |-> 2,
                    prev |-> 0, next |-> 2]

\* C16 witness: one caller holds the records of a refresh and another those
\* of the cache, in an order that is not the provider's.
C16_Witness ==
  \E p, q \in Procs :
    /\ pc[p] = "got" /\ ups[p] /\ ret[p].err = "none"
    /\ pc[q] = "got" /\ ~ups[q] /\ ret[q].err = "none"
    /\ local[p] = local[q] /\ Len(local[p]) = 2
    /\ [i \in 1..2 |-> Sent(local[p][i])] # [i \in 1..2 |-> Sent(RespTwo[i])]

\* --------------------------------------------------- favorites: the cookie

\* Go's s < t on strings.
StrLess(s, t) == StrGreater(t, s)

\* sort.Strings on a slice of at most 12 elements is an insertion sort:
\* element j is swapped towards the front while it is less than the one
\* before it.
RECURSIVE SinkLeftStr(_, _)
SinkLeftStr(titles, j) ==
  IF j > 1 /\ StrLess(titles[j], titles[j - 1])
  THEN SinkLeftStr([titles EXCEPT ![j] = titles[j - 1], ![j - 1] = titles[j]], j - 1)
  ELSE titles

RECURSIVE InsertionSortStr(_, _)
InsertionSortStr(titles, i) ==
  IF i > Len(titles) THEN titles
  ELSE InsertionSortStr(SinkLeftStr(titles, i), i + 1)

\* Mutant: the titles are written in the order the map yields them.
SortStringsMissing(titles) == titles

\* sort.Strings
SortStrings(titles) == InsertionSortStr(titles, 2)

\* The bytes http.SetCookie keeps of a cookie value: it drops ";" (as it
\* drops the double quote, the backslash and every byte outside 0x20..0x7e,
\* those of an accented letter among them).
validCookieValueByte(c) == c # ";"

\* The value the visitor's next request carries after http.SetCookie wrote
\* value: the invalid bytes are dropped; the quotes SetCookie puts around a
\* value that holds a space are taken off again by Request.Cookie.
SetCookie(value) == SelectSeq(value, validCookieValueByte)

\* The orders in which `for title := range favs` may yield the keys of favs.
Orders(favs) ==
  {order \in [1..Cardinality(favs) -> favs] :
     \A i, j \in 1..Cardinality(favs) : order[i] = order[j] => i = j}

\* saveFavorites, the map having yielded its keys as titles: the cookie of
\* the visitor's next request.
saveFavorites(titles) ==
  [has |-> TRUE, value |-> SetCookie(Join(SortStrings(titles), <<"|">>))]

\* The map ToggleFavoriteHandler saves: title deleted if it was a key, added
\* otherwise.
ToggledFavs(favs, title) ==
  IF title \in favs THEN favs \ {title} ELSE favs \cup {title}

\* http status code of the redirect that ends a toggle.
StatusSeeOther == 303

\* ToggleFavoriteHandler on a request that carries cookie and the parameter
\* titleRaw, the map yielding its keys as titles: the status of the answer
\* and the cookie of the visitor's next request.
ToggleFavoriteHandler(cookie, titleRaw, titles) ==
  IF TrimSpace(titleRaw) = <<>>
  THEN [status |-> StatusBadRequest, cookie |-> cookie]
  ELSE [status |-> StatusSeeOther, cookie |-> saveFavorites(titles)]

\* The orders in which the map of that request may yield its keys.
ToggleOrders(cookie, titleRaw) ==
  Orders(ToggledFavs(getFavorites(cookie.has, cookie.value), TrimSpace(titleRaw)))

\* loadMatchesWithFavorites on a request that carries cookie, fetchMatches
\* having returned matches.
loadMatchesWithFavorites(matches, cookie) ==
  Annotate(matches, getFavorites(cookie.has, cookie.value))

\* Cookies a visitor may send at first: none, an empty one, one this program
\* wrote and one written by hand, unsorted and with a repeated title.
NoCookie == [has |-> FALSE, value |-> <<>>]
StartCookies ==
  {NoCookie,
   [has |-> TRUE, value |-> <<>>],
   [has |-> TRUE, value |-> <<"B">>],
   [has |-> TRUE, value |-> <<"B", "|", " ", "A", "|", "B">>]}

\* Values of the title parameter of /favorite/toggle.
ToggleTitles ==
  {<<"A">>, <<"B">>, <<"A", "|", "B">>, <<"A", ";">>, <<" ", "A">>, <<" ">>}

\* Records the provider may send, for the favorites: a title may hold any
\* character.
FavResponses ==
  { << RawMatch(<<"A">>, <<"a", ":">>, <<"1">>, <<>>),
       RawMatch(<<"B">>, <<"a", ":">>, <<"2">>, <<>>) >>,
    << RawMatch(<<"A">>, <<"a", ":">>, <<"1">>, <<>>),
       RawMatch(<<"A", "|", "B">>, <<"a", ":">>, <<"2">>, <<>>),
       RawMatch(<<"B">>, <<"a", ":">>, <<"3">>, <<>>) >>,
    << RawMatch(<<"A", ";">>, <<"a", ":">>, <<"1">>, <<>>),
       RawMatch(<<" ", "A">>, <<"a", ":">>, <<"2">>, <<>>) >> }

\* A visitor's requests, one after the other: list, toggle, list, toggle,
\* list, each carrying the cookie the one before left.
VisitCalls ==
  {[fn |-> "visit", matches |-> normalizeMatches(r), title |-> t, start |-> c,
    cookie |-> c, step |-> 0, lists |-> <<>>] :
     r \in FavResponses, t \in ToggleTitles, c \in StartCookies}

\* Two visitors who toggle titles, in any order and without end; saved is
\* the map the last toggle of a visitor saved, and the first title toggled.
Visitors == {"v1", "v2"}
PairCalls ==
  {[fn |-> "pair", jar |-> jar,
    saved |-> [v \in Visitors |-> [written |-> FALSE, first |-> <<>>, favs |-> {}]]] :
     jar \in [Visitors -> StartCookies]}

\* The visitor asks for a list: loadMatchesWithFavorites annotates a
\* snapshot with the favorites of the cookie.
DoList ==
  /\ call.fn = "visit" /\ call.step \in {0, 2, 4}
  /\ call' = [call EXCEPT !.step = call.step + 1,
                          !.lists = Append(call.lists,
                                      loadMatchesWithFavorites(call.matches, call.cookie))]
  /\ UNCHANGED cacheVars

\* The visitor toggles the title.
DoToggle ==
  /\ call.fn = "visit" /\ call.step \in {1, 3}
  /\ \E titles \in ToggleOrders(call.cookie, call.title) :
       call' = [call EXCEPT !.step = call.step + 1,
                            !.cookie = ToggleFavoriteHandler(call.cookie, call.title,
                                                            titles).cookie]
  /\ UNCHANGED cacheVars

\* One of the two visitors toggles a title.
DoPairToggle ==
  /\ call.fn = "pair"
  /\ \E v \in Visitors, t \in ToggleTitles :
       \E titles \in ToggleOrders(call.jar[v], t) :
         LET answer == ToggleFavoriteHandler(call.jar[v], t, titles)
         IN call' = [call EXCEPT
                       !.jar[v] = answer.cookie,
                       !.saved[v] = IF answer.status = StatusSeeOther
                                    THEN [written |-> TRUE,
                                          first |-> IF call.saved[v].written
                                                    THEN call.saved[v].first
                                                    ELSE TrimSpace(t),
                                          favs |-> Range(titles)]
                                    ELSE call.saved[v]]
  /\ UNCHANGED cacheVars

FavInit == CacheInit /\ call \in (VisitCalls \cup PairCalls)

FavNext == DoList \/ DoToggle \/ DoPairToggle

FavSpec == FavInit /\ [][FavNext]_vars

\* ------------------------------------------------------- favorites: claims

\* The Favorite Set a cookie denotes.
FavoriteSet(cookie) == getFavorites(cookie.has, cookie.value)

\* The titles of a cookie value, as the list it spells.
TitlesOf(value) == IF value = <<>> THEN <<>> ELSE Split(value, "|")

\* C14, as stated: two successive toggles of a title, the second carrying
\* the cookie the first wrote, leave the Favorite Set of the starting cookie.
C14_ToggleTwice ==
  (call.fn = "visit" /\ call.step >= 4) =>
    FavoriteSet(call.cookie) = FavoriteSet(call.start)

\* C15: what saveFavorites writes for the set read from a cookie is a list
\* of titles in strictly increasing order (sorted, none twice), and writing
\* the set read from that list gives the same list again; and two visitors
\* whose toggles saved the same set carry the same cookie value.
C15_StableEncoding ==
  call.fn = "pair" =>
    /\ \A v \in Visitors :
         \A titles \in Orders(FavoriteSet(call.jar[v])) :
           LET once == saveFavorites(titles)
               list == TitlesOf(once.value)
           IN /\ \A i \in 1..(Len(list) - 1) : StrLess(list[i], list[i + 1])
              /\ Range(list) = FavoriteSet(call.jar[v])
              /\ \A again \in Orders(FavoriteSet(once)) :
                   saveFavorites(again) = once
    /\ \A v, w \in Visitors :
         (/\ call.saved[v].written /\ call.saved[w].written
          /\ call.saved[v].favs = call.saved[w].favs)
           => call.jar[v] = call.jar[w]

\* C15 witness: two visitors began with different titles and saved the same
\* set of two titles or more; one of them began from an unsorted cookie.
C15_Witness ==
  /\ call.fn = "pair"
  /\ \A v \in Visitors : call.saved[v].written
  /\ call.saved["v1"].favs = call.saved["v2"].favs
  /\ Cardinality(call.saved["v1"].favs) >= 2
  /\ call.saved["v1"].first # call.saved["v2"].first

\* C18, as stated: when the title of a cached record is not a favorite of
\* the starting cookie, a toggle of that title makes the next list show the
\* record as favorite and changes the flag of no record with another title;
\* a second toggle makes the flag false again.
C18_ToggleThenRead ==
  (/\ call.fn = "visit"
   /\ \E i \in 1..Len(call.matches) : call.matches[i].Title = call.title
   /\ call.title \notin FavoriteSet(call.start)) =>
    /\ call.step >= 3 =>
         \A i \in 1..Len(call.matches) :
           call.lists[2][i].IsFavorite =
             (IF call.matches[i].Title = call.title THEN TRUE
              ELSE call.lists[1][i].IsFavorite)
    /\ call.step >= 5 =>
         \A i \in 1..Len(call.matches) :
           call.matches[i].Title = call.title => ~call.lists[3][i].IsFavorite

====
